---- MODULE Spec2Model ----
(***************************************************************************)
(* Model of mpas_analysis/shared/plot/plotting.py.                         *)
(*                                                                         *)
(* The program state that outlives a call is the state of its              *)
(* collaborators: the stack of open figures kept by matplotlib.pyplot      *)
(* (figs) and the files on disk (fs).  `last` records what the most recent *)
(* call did: its arguments, the library calls it made in order, the config *)
(* options it read and how it ended.                                       *)
(*                                                                         *)
(* Optional arguments: None is the empty tuple, a given value v is <<v>>.  *)
(* Figure sizes are in tenths of an inch, so that (22, 8.5) is <<220,85>>. *)
(***************************************************************************)
EXTENDS Integers, Sequences, FiniteSets, TLC

VARIABLES figs, fs, last

vars == <<figs, fs, last>>

(***************************** bounds **************************************)
\* most figures pyplot holds open at once
MaxOpenFigures == 2
\* longest list of data sets / x arrays handed to a time-series or 1D plot
MaxLen == 2
\* longest xArray handed to plot_vertical_section
MaxX == 4
\* largest moving-average window handed to plot_vertical_section
MaxN == 3
\* longest colorbarLevels list in a config section
MaxLevels == 3

(***************************** values **************************************)
None == <<>>
Some(v) == <<v>>

Min(a, b) == IF a < b THEN a ELSE b
Max(a, b) == IF a > b THEN a ELSE b

\* the [plot] section of a config: the options the routines read with a value
\* that matters here; the font options are always present
Configs == [dpi : {100}, displayToScreen : BOOLEAN]

DpiArgs == {None, Some(300)}
FileArgs == {None, Some("out.png")}
\* a fileout argument left out of the call, where the routine has a default
Omitted == <<"fileout", "omitted">>
TitleFontSizes == {None, Some(14)}
Titles == {None, Some("title")}

\* a call that has not happened
NoCall ==
  [routine |-> "none", outcome |-> "none",
   errKind |-> "none", errOrigin |-> "none", errMsg |-> "none",
   caught |-> {},
   dpi |-> None, fileout |-> None, displayToScreen |-> FALSE, cfgDpi |-> 0,
   configReads |-> {}, trace |-> <<>>,
   figDpi |-> None, figsize |-> None, saveDpi |-> None,
   written |-> <<>>, figsBefore |-> <<>>, fsBefore |-> {},
   created |-> <<>>, closed |-> <<>>,
   colorbars |-> <<>>, nEntries |-> 0, drawn |-> 0, legend |-> FALSE,
   ticks |-> "none",
   vertical |-> FALSE, figsizeArg |-> None,
   clevsModelObs |-> <<>>, clevsDiff |-> <<>>,
   xLen |-> 0, depthLen |-> 0, shape |-> <<0, 0>>, N |-> None,
   xTrim |-> None, fieldTrim |-> None,
   section |-> None, suffix |-> "", result |-> None]

\* the running call: the collaborators' state and the record of the call
Enter(routine) ==
  [figs |-> figs, fs |-> fs,
   r |-> [NoCall EXCEPT !.routine = routine, !.outcome = "running",
                        !.figsBefore = figs, !.fsBefore = fs]]

\* the arguments every plotting routine takes
EnterPlot(routine, dpi, fileout, config) ==
  [Enter(routine) EXCEPT !.r.dpi = dpi, !.r.fileout = fileout,
                         !.r.displayToScreen = config.displayToScreen,
                         !.r.cfgDpi = config.dpi]

\* control is with the caller, no call of this module is in progress
Idle == last.routine = "none"

Raised(s) == s.r.outcome = "raised"

\* an exception leaves the routine: nothing in plotting.py catches it
\* origin: "module" (a raise statement of plotting.py), "runtime" (the
\* interpreter, on the module's own expression), "library" (numpy, matplotlib)
\* or "config" (the config object)
Raise(s, kind, origin, msg) ==
  IF Raised(s) THEN s
  ELSE [s EXCEPT !.r.outcome = "raised", !.r.errKind = kind,
                 !.r.errOrigin = origin, !.r.errMsg = msg]

Return(s) ==
  IF Raised(s) THEN s ELSE [s EXCEPT !.r.outcome = "returned"]

(************************ collaborators ************************************)
\* config.get / getint / getboolean of an option of section [plot]
config_get(s, option) ==
  IF Raised(s) THEN s
  ELSE [s EXCEPT !.r.configReads = @ \cup {option}]

\* the number pyplot gives a new figure
NextNum(f) == IF f = <<>> THEN 1 ELSE f[Len(f)] + 1

\* plt.figure(figsize=figsize, dpi=dpi): a new figure, made current
figure(s, figsize, dpi) ==
  IF Raised(s) THEN s
  ELSE [s EXCEPT !.figs = Append(@, NextNum(@)),
                 !.r.created = Append(@, NextNum(s.figs)),
                 !.r.figDpi = Some(dpi), !.r.figsize = Some(figsize),
                 !.r.trace = Append(@, "figure")]

\* a drawing call on the current figure
draw(s, what) ==
  IF Raised(s) THEN s
  ELSE [s EXCEPT !.r.trace = Append(@, what)]

\* the plotting library refusing what it is given (bad data, bad style)
library(s, libraryRaises) ==
  IF libraryRaises THEN Raise(s, "LibraryError", "library", "plotting library")
  ELSE s

\* plt.savefig(fileout, dpi=dpi, ...)
savefig(s, fileout, dpi) ==
  IF Raised(s) THEN s
  ELSE [s EXCEPT !.fs = @ \cup {fileout},
                 !.r.written = Append(@, fileout),
                 !.r.saveDpi = Some(dpi),
                 !.r.trace = Append(@, "save")]

\* plt.close(): closes the current figure, the last one of the stack
close(s) ==
  IF Raised(s) \/ s.figs = <<>> THEN s
  ELSE [s EXCEPT !.figs = SubSeq(@, 1, Len(@) - 1),
                 !.r.closed = Append(@, s.figs[Len(s.figs)]),
                 !.r.trace = Append(@, "close")]

(************************ shared fragments *********************************)
\* variant: the dpi argument is ignored
dpi_always_config(dpi, config) == config.dpi

\* if dpi is None: dpi = config.getint('plot', 'dpi')
dpi_or_config(dpi, config) ==
  IF dpi = None THEN config.dpi ELSE dpi[1]

read_dpi(s, dpi) ==
  IF dpi = None THEN config_get(s, "dpi") ELSE s

\* if fileout is not None: plt.savefig(fileout, dpi=dpi, ...)
save_if_fileout(s, fileout, dpi) ==
  IF fileout # None THEN savefig(s, fileout[1], dpi) ELSE s

\* variant: the figure is closed whatever displayToScreen says
close_always(s, config) == close(config_get(s, "displayToScreen"))

\* variant: the test of displayToScreen is inverted
close_if_displayed(s, config) ==
  LET s1 == config_get(s, "displayToScreen")
  IN  IF config.displayToScreen THEN close(s1) ELSE s1

\* if not config.getboolean('plot', 'displayToScreen'): plt.close()
close_unless_displayed(s, config) ==
  LET s1 == config_get(s, "displayToScreen")
  IN  IF ~config.displayToScreen THEN close(s1) ELSE s1

\* axis_font and title_font, read from the config
read_fonts(s) ==
  config_get(config_get(config_get(s, "axisFontSize"),
                        "titleFontColor"), "titleFontWeight")

\* the state after the call: the collaborators and the record
Finish(s) ==
  /\ figs' = s.figs
  /\ fs' = s.fs
  /\ last' = s.r

(************************ time series **************************************)
\* a data set: the first and last day of its Time coordinate and the range
\* of its values
DataSets ==
  { [days |-> <<0, 364>>, range |-> <<1, 2>>],
    [days |-> <<365, 4744>>, range |-> <<-1, 1>>] }

\* an entry of dsvalues is a data set or None
DsEntries == {None} \cup {Some(d) : d \in DataSets}

\* lists of at most n entries drawn from S
ListsUpTo(S, n) == UNION { [1..k -> S] : k \in 0..n }

\* the entries of a list that are not None, in order
RECURSIVE NotNone(_)
NotNone(l) ==
  IF l = <<>> THEN <<>>
  ELSE IF Head(l) = None THEN NotNone(Tail(l))
       ELSE <<Head(l)[1]>> \o NotNone(Tail(l))

RECURSIVE amin(_)
amin(l) == IF Len(l) = 1 THEN l[1] ELSE Min(l[1], amin(Tail(l)))

RECURSIVE amax(_)
amax(l) == IF Len(l) = 1 THEN l[1] ELSE Max(l[1], amax(Tail(l)))

daysPerYear == 365
maxXTicksDefault == 20

\* days_to_datetime(days, calendar).year, years counted from 1
year_of(days) == (days \div daysPerYear) + 1

\* plot_xtick_format(plt, calendar, minDays, maxDays, maxXTicks)
plot_xtick_format(s, minDays, maxDays, maxXTicks) ==
  IF minDays = <<>> \/ maxDays = <<>>
  THEN Raise(s, "ValueError", "library", "zero-size array to reduction operation")
  ELSE LET start == year_of(amin(minDays))
           end == year_of(amax(maxDays))
           mode == IF end - start > maxXTicks \div 2 THEN "years" ELSE "months"
       IN  IF Raised(s) THEN s
           ELSE [s EXCEPT !.r.ticks = mode, !.r.trace = Append(@, "xticks")]

\* ax.get_ylim(): the default limits of empty axes, else the range drawn
get_ylim(drawn) ==
  IF drawn = <<>> THEN <<0, 1>>
  ELSE <<amin([i \in 1..Len(drawn) |-> drawn[i].range[1]]),
         amax([i \in 1..Len(drawn) |-> drawn[i].range[2]])>>

\* the loop over dsvalues: None entries are skipped, the others are averaged
\* and plotted
plot_dsvalues(s, dsvalues, what) ==
  IF Raised(s) THEN s
  ELSE [s EXCEPT !.r.nEntries = Len(dsvalues),
                 !.r.drawn = Len(NotNone(dsvalues)),
                 !.r.trace = @ \o [i \in 1..Len(NotNone(dsvalues)) |-> what]]

\* the y=0 line, drawn from `mean`, the average of the last data set plotted
zero_line(s, drawn) ==
  LET yaxLimits == get_ylim(drawn)
  IN  IF yaxLimits[1] * yaxLimits[2] < 0
      THEN IF drawn = <<>>
           THEN Raise(s, "NameError", "runtime", "mean")
           ELSE draw(s, "plot")
      ELSE s

\* titleFontSize = config.get('plot', 'titleFontSize') when it is None
read_title_font_size(s, titleFontSize) ==
  IF titleFontSize = None THEN config_get(s, "titleFontSize") ELSE s

timeseries_analysis_plot_body(s0, config, dsvalues, fileout, titleFontSize, dpi, libraryRaises) ==
  LET d == dpi_or_config(dpi, config)
      drawn == NotNone(dsvalues)
      minDays == [i \in 1..Len(drawn) |-> drawn[i].days[1]]
      maxDays == [i \in 1..Len(drawn) |-> drawn[i].days[2]]
      s1 == figure(read_dpi(s0, dpi), <<150, 60>>, d)
      s2 == plot_dsvalues(library(s1, libraryRaises), dsvalues, "plot")
      s3 == draw(s2, "legend")
      s4 == read_fonts(read_title_font_size(s3, titleFontSize))
      s5 == zero_line(s4, drawn)
      s6 == plot_xtick_format(s5, minDays, maxDays, maxXTicksDefault)
      s7 == draw(s6, "labels")
      s8 == save_if_fileout(s7, fileout, d)
  IN  Return(close_unless_displayed(s8, config))

timeseries_analysis_plot ==
  /\ Idle
  /\ Len(figs) < MaxOpenFigures
  /\ \E config \in Configs, dsvalues \in ListsUpTo(DsEntries, MaxLen),
        fileout \in FileArgs, titleFontSize \in TitleFontSizes,
        dpi \in DpiArgs, libraryRaises \in BOOLEAN :
       Finish(timeseries_analysis_plot_body(
                EnterPlot("timeseries_analysis_plot", dpi, fileout, config),
                config, dsvalues, fileout, titleFontSize, dpi, libraryRaises))

timeseries_analysis_plot_polar_body(s0, config, dsvalues, fileout, titleFontSize, dpi, libraryRaises) ==
  LET d == dpi_or_config(dpi, config)
      s1 == figure(read_dpi(s0, dpi), <<150, 60>>, d)
      s2 == plot_dsvalues(library(s1, libraryRaises), dsvalues, "polar")
      s3 == draw(draw(s2, "legend"), "xticks")
      s4 == read_fonts(read_title_font_size(s3, titleFontSize))
      s5 == draw(s4, "labels")
      s6 == save_if_fileout(s5, fileout, d)
  IN  Return(close_unless_displayed(s6, config))

timeseries_analysis_plot_polar ==
  /\ Idle
  /\ Len(figs) < MaxOpenFigures
  /\ \E config \in Configs, dsvalues \in ListsUpTo(DsEntries, MaxLen),
        fileout \in FileArgs, titleFontSize \in TitleFontSizes,
        dpi \in DpiArgs, libraryRaises \in BOOLEAN :
       Finish(timeseries_analysis_plot_polar_body(
                EnterPlot("timeseries_analysis_plot_polar", dpi, fileout, config),
                config, dsvalues, fileout, titleFontSize, dpi, libraryRaises))


(************************ comparison plots *********************************)
\* colorbar level arrays handed to the comparison plots
LevelArrays == { <<0, 1, 2>>, <<-1, 0, 1>> }

FigsizeArgs == {None, Some(<<100, 100>>)}

\* the title font is read only when there is a title
read_title_font(s, title, titleFontSize) ==
  IF title # None
  THEN draw(config_get(config_get(read_title_font_size(s, titleFontSize),
                                  "titleFontColor"), "titleFontWeight"),
            "suptitle")
  ELSE s

\* a filled-contour panel and its colorbar:
\* m.contourf(..., levels=levels); m.colorbar(cs, ticks=ticks, boundaries=boundaries)
panel(s, name, levels, ticks, boundaries) ==
  IF Raised(s) THEN s
  ELSE [s EXCEPT !.r.colorbars =
                    Append(@, [panel |-> name, levels |-> levels,
                               ticks |-> ticks, boundaries |-> boundaries]),
                 !.r.trace = @ \o <<"contourf", "colorbar">>]

\* do_subplot(ax, field, title, cmap, norm, levels) of plot_polar_comparison
do_subplot(s, name, levels) == panel(s, name, levels, levels, levels)

\* the figure size of plot_polar_comparison
polar_figsize(figsize, vertical) ==
  IF vertical
  THEN IF figsize = None THEN <<80, 220>> ELSE figsize[1]
  ELSE IF figsize = None THEN <<220, 85>> ELSE figsize[1]

plot_polar_comparison_body(s0, config, clevsModelObs, clevsDiff, fileout, title, titleFontSize, figsize, dpi, vertical, libraryRaises) ==
  LET d == dpi_or_config(dpi, config)
      s1 == figure(read_dpi(s0, dpi), polar_figsize(figsize, vertical), d)
      s2 == read_title_font(library(s1, libraryRaises), title, titleFontSize)
      s3 == config_get(s2, "axisFontSize")
      s4 == do_subplot(s3, "model", clevsModelObs)
      s5 == do_subplot(s4, "observations", clevsModelObs)
      s6 == do_subplot(s5, "difference", clevsDiff)
      s7 == draw(s6, "tight_layout")
      s8 == save_if_fileout(s7, fileout, d)
  IN  Return(close_unless_displayed(s8, config))

plot_polar_comparison ==
  /\ Idle
  /\ Len(figs) < MaxOpenFigures
  /\ \E config \in Configs, clevsModelObs \in LevelArrays,
        clevsDiff \in LevelArrays, fileout \in FileArgs, title \in Titles,
        titleFontSize \in TitleFontSizes, figsize \in FigsizeArgs,
        dpi \in DpiArgs, vertical \in BOOLEAN, libraryRaises \in BOOLEAN :
       Finish(plot_polar_comparison_body(
                [EnterPlot("plot_polar_comparison", dpi, fileout, config)
                   EXCEPT !.r.vertical = vertical, !.r.figsizeArg = figsize,
                          !.r.clevsModelObs = clevsModelObs,
                          !.r.clevsDiff = clevsDiff],
                config, clevsModelObs, clevsDiff, fileout, title,
                titleFontSize, figsize, dpi, vertical, libraryRaises))

\* the difference panel of plot_global_comparison
global_difference_panel(s, clevsModelObs, clevsDiff) ==
  panel(s, "difference", clevsDiff, clevsDiff, clevsModelObs)

plot_global_comparison_body(s0, config, clevsModelObs, clevsDiff, fileout, title, titleFontSize, dpi, libraryRaises) ==
  LET d == dpi_or_config(dpi, config)
      s1 == figure(read_dpi(s0, dpi), <<80, 120>>, d)
      s2 == read_title_font(library(s1, libraryRaises), title, titleFontSize)
      s3 == config_get(s2, "axisFontSize")
      s4 == panel(s3, "model", clevsModelObs, clevsModelObs, clevsModelObs)
      s5 == panel(s4, "observations", clevsModelObs, clevsModelObs,
                  clevsModelObs)
      s6 == global_difference_panel(s5, clevsModelObs, clevsDiff)
      s7 == save_if_fileout(s6, fileout, d)
  IN  Return(close_unless_displayed(s7, config))

plot_global_comparison ==
  /\ Idle
  /\ Len(figs) < MaxOpenFigures
  /\ \E config \in Configs, clevsModelObs \in LevelArrays,
        clevsDiff \in LevelArrays, fileout \in FileArgs, title \in Titles,
        titleFontSize \in TitleFontSizes, dpi \in DpiArgs,
        libraryRaises \in BOOLEAN :
       Finish(plot_global_comparison_body(
                [EnterPlot("plot_global_comparison", dpi, fileout, config)
                   EXCEPT !.r.clevsModelObs = clevsModelObs,
                          !.r.clevsDiff = clevsDiff],
                config, clevsModelObs, clevsDiff, fileout, title,
                titleFontSize, dpi, libraryRaises))

(************************ 1D plot ******************************************)
\* an entry of xArrays is an array or None
XEntries == {None, Some("x")}

\* fileout of a routine that has a default for it
FileArgsWithDefault == FileArgs \cup {Omitted}

\* variant: an omitted fileout is taken for None
fileout_or_default_none(fileout, default) ==
  IF fileout = Omitted THEN None ELSE fileout

fileout_or_default(fileout, default) ==
  IF fileout = Omitted THEN Some(default) ELSE fileout

\* the loop over xArrays: None entries are skipped, the others are plotted
plot_xArrays(s, xArrays) ==
  IF Raised(s) THEN s
  ELSE [s EXCEPT !.r.nEntries = Len(xArrays),
                 !.r.drawn = Len(NotNone(xArrays)),
                 !.r.trace = @ \o [i \in 1..Len(NotNone(xArrays)) |-> "plot"]]

\* if dsIndex > 0: plt.legend(), dsIndex being what the loop left behind
legend_if_dsIndex(s, xArrays) ==
  IF Raised(s) THEN s
  ELSE IF xArrays = <<>>
       THEN Raise(s, "UnboundLocalError", "runtime", "dsIndex")
       ELSE IF (Len(xArrays) - 1) > 0
            THEN [s EXCEPT !.r.legend = TRUE, !.r.trace = Append(@, "legend")]
            ELSE s

plot_1D_body(s0, config, xArrays, fileoutArg, dpi, libraryRaises) ==
  LET d == dpi_or_config(dpi, config)
      fileout == fileout_or_default(fileoutArg, "plot_1D.png")
      s1 == figure(read_dpi(s0, dpi), <<100, 40>>, d)
      s2 == plot_xArrays(library(s1, libraryRaises), xArrays)
      s3 == draw(s2, "grid")
      s4 == legend_if_dsIndex(s3, xArrays)
      s5 == read_fonts(config_get(s4, "titleFontSize"))
      s6 == draw(s5, "labels")
      s7 == save_if_fileout(s6, fileout, d)
  IN  Return(close_unless_displayed(s7, config))

plot_1D ==
  /\ Idle
  /\ Len(figs) < MaxOpenFigures
  /\ \E config \in Configs, xArrays \in ListsUpTo(XEntries, MaxLen),
        fileout \in FileArgsWithDefault, dpi \in DpiArgs,
        libraryRaises \in BOOLEAN :
       Finish(plot_1D_body(
                EnterPlot("plot_1D", dpi, fileout, config),
                config, xArrays, fileout, dpi, libraryRaises))

(************************ vertical section *********************************)
\* number of depth levels of the sections plotted
DepthLen == 2

\* round(N/2.0) of Python 2: halves are rounded away from zero
round_half(N) == (N + 1) \div 2

\* seq[start:stop] of Python, start >= 0; a negative stop counts from the end
PySlice(seq, start, stop) ==
  LET lo == Min(start, Len(seq))
      hi == IF stop < 0 THEN Max(Len(seq) + stop, 0) ELSE Min(stop, Len(seq))
  IN  SubSeq(seq, lo + 1, hi)

\* a[int(N/2.0):-int(round(N/2.0)-1)]
trim(a, N) == PySlice(a, N \div 2, -(round_half(N) - 1))

\* variant: the check of depthArray is left out
size_mismatch_x_only(xLen, depthLen, shape) ==
  IF xLen # shape[2] THEN Some("size mismatch between xArray and fieldArray")
  ELSE None

\* the check of the dimensions of fieldArray against xArray and depthArray
size_mismatch(xLen, depthLen, shape) ==
  IF xLen # shape[2] THEN Some("size mismatch between xArray and fieldArray")
  ELSE IF depthLen # shape[1]
       THEN Some("size mismatch between depthArray and fieldArray")
       ELSE None

check_sizes(s, xLen, depthLen, shape) ==
  IF size_mismatch(xLen, depthLen, shape) # None
  THEN Raise(s, "ValueError", "module", size_mismatch(xLen, depthLen, shape)[1])
  ELSE s

\* the moving average over N points: xArray and every depth slice are trimmed
moving_average(s, xArray, shape, N) ==
  IF Raised(s) THEN s
  ELSE IF N # None /\ N # Some(1)
       THEN [s EXCEPT !.r.xTrim = Some(trim(xArray, N[1])),
                      !.r.fieldTrim =
                         Some(<<shape[1],
                                Len(trim([i \in 1..shape[2] |-> i], N[1]))>>)]
       ELSE [s EXCEPT !.r.xTrim = Some(xArray), !.r.fieldTrim = Some(shape)]

\* plt.contourf(x, y, fieldArray, ...): needs at least a 2x2 array
contourf(s) ==
  IF Raised(s) THEN s
  ELSE IF s.r.fieldTrim[1][1] < 2 \/ s.r.fieldTrim[1][2] < 2
       THEN Raise(s, "TypeError", "library",
                  "Input z must be at least a 2x2 array")
       ELSE draw(s, "contourf")

\* plt.contour, when contourLevels is given
contour_lines(s, contourLevels) ==
  IF contourLevels # None THEN draw(s, "contour") ELSE s

\* cbar = plt.colorbar(cs, ticks=colorbarLevels, boundaries=colorbarLevels)
section_colorbar(s, colorbarLevels) ==
  IF Raised(s) THEN s
  ELSE [s EXCEPT !.r.colorbars =
                    Append(@, [panel |-> "section", levels |-> colorbarLevels,
                               ticks |-> colorbarLevels,
                               boundaries |-> colorbarLevels]),
                 !.r.trace = Append(@, "colorbar")]

\* the time axis: minDays = [xArray[0]]; maxDays = [xArray[-1]]
time_axis(s, xArrayIsTime) ==
  IF Raised(s) \/ ~xArrayIsTime THEN s
  ELSE IF s.r.xTrim[1] = <<>>
       THEN Raise(s, "IndexError", "runtime", "xArray[0]")
       ELSE plot_xtick_format(s, <<s.r.xTrim[1][1]>>,
                              <<s.r.xTrim[1][Len(s.r.xTrim[1])]>>,
                              maxXTicksDefault)

plot_vertical_section_body(s0, config, xArray, depthLen, shape, colorbarLevels, contourLevels, fileoutArg, dpi, xArrayIsTime, N, libraryRaises) ==
  LET d == dpi_or_config(dpi, config)
      fileout == fileout_or_default(fileoutArg, "moc.png")
      s1 == check_sizes(s0, Len(xArray), depthLen, shape)
      s2 == figure(read_dpi(s1, dpi), <<100, 40>>, d)
      s3 == moving_average(s2, xArray, shape, N)
      s4 == contourf(library(s3, libraryRaises))
      s5 == section_colorbar(contour_lines(s4, contourLevels), colorbarLevels)
      s6 == read_fonts(config_get(s5, "titleFontSize"))
      s7 == draw(s6, "labels")
      s8 == time_axis(s7, xArrayIsTime)
      s9 == save_if_fileout(s8, fileout, d)
  IN  Return(close_unless_displayed(s9, config))

plot_vertical_section ==
  /\ Idle
  /\ Len(figs) < MaxOpenFigures
  /\ \E config \in Configs, xLen \in 1..MaxX,
        rows \in {DepthLen, DepthLen + 1}, colsExtra \in {0, 1},
        colorbarLevels \in {None, Some(<<0, 1, 2>>)},
        contourLevels \in {None, Some(<<>>)},
        fileout \in FileArgsWithDefault, dpi \in DpiArgs,
        xArrayIsTime \in BOOLEAN,
        N \in {None} \cup {Some(n) : n \in 1..MaxN},
        libraryRaises \in BOOLEAN :
       Finish(plot_vertical_section_body(
                [EnterPlot("plot_vertical_section", dpi, fileout, config)
                   EXCEPT !.r.xLen = xLen, !.r.depthLen = DepthLen,
                          !.r.shape = <<rows, xLen + colsExtra>>, !.r.N = N],
                config, [i \in 1..xLen |-> i], DepthLen,
                <<rows, xLen + colsExtra>>, colorbarLevels, contourLevels,
                fileout, dpi, xArrayIsTime, N, libraryRaises))

(************************ colormap *****************************************)
\* the colormaps of the registry, by name
Registry == {"RdYlBu_r"}

\* the name of an option: 'colormapName{}'.format(suffix)
format(option, suffix) == option \o suffix

\* a colormap of the registry; it has no colour list of its own
registry_colormap(name) ==
  [kind |-> "registry", name |-> name, colors |-> <<>>,
   under |-> None, over |-> None]

\* colormap(i): the colour of a registry colormap at index i
colour(colormap, i) == <<colormap.name, i>>

\* the index lists and level lists a config section can hold
IndexList(n) == [i \in 1..n |-> 10 * i]
LevelList(n) == [i \in 1..n |-> i]

\* a config section: each of the three options, for the suffix asked for, is
\* present with a value or absent
Sections ==
  [colormapName : {None, Some("RdYlBu_r"), Some("nosuchmap")},
   colormapIndices : {None} \cup {Some(IndexList(n)) : n \in 0..(MaxLevels + 1)},
   colorbarLevels : {None} \cup {Some(LevelList(n)) : n \in 0..MaxLevels}]

\* config.get(section, option): NoOptionError when the option is absent
section_get(s, value, option) ==
  IF Raised(s) THEN s
  ELSE IF value = None
       THEN Raise(config_get(s, option), "NoOptionError", "config", option)
       ELSE config_get(s, option)

\* plt.get_cmap(name): ValueError for a name the registry does not know
get_cmap(s, name) ==
  IF Raised(s) THEN s
  ELSE IF name \notin Registry
       THEN Raise(s, "ValueError", "library", "Colormap is not recognized")
       ELSE [s EXCEPT !.r.result = Some(<<registry_colormap(name), None>>)]

\* variant: the missing option is not caught
get_colorbarLevels_uncaught(s, value, option) ==
  IF Raised(s) THEN s
  ELSE IF value = None
       THEN Raise(config_get(s, option), "NoOptionError", "config", option)
       ELSE config_get(s, option)

\* try: colorbarLevels = config.getExpression(...)
\* except(ConfigParser.NoOptionError): colorbarLevels = None
get_colorbarLevels(s, value, option) ==
  IF Raised(s) THEN s
  ELSE IF value = None
       THEN [config_get(s, option) EXCEPT !.r.caught = @ \cup {"NoOptionError"}]
       ELSE config_get(s, option)

\* variant: the shorter list is compared with the wrong length
indices_case_equal(colorbarLevels, indices) ==
  IF Len(colorbarLevels) + 1 = Len(indices) THEN "trim"
  ELSE IF Len(colorbarLevels) # Len(indices) THEN "mismatch"
       ELSE "keep"

\* the index lists accepted against colorbarLevels, with the indices that
\* make up the colours: "trim" drops the under and over entries
indices_case(colorbarLevels, indices) ==
  IF Len(colorbarLevels) + 1 = Len(indices) THEN "trim"
  ELSE IF Len(colorbarLevels) - 1 # Len(indices) THEN "mismatch"
       ELSE "keep"

\* variant: the under and over colours are taken after the trimming
listed_colormap_after_trim(colormap, indices, colorbarLevels, suffix) ==
  LET used == IF indices_case(colorbarLevels, indices) = "trim"
              THEN PySlice(indices, 1, -1) ELSE indices
  IN  [kind |-> "listed", name |-> format("colormapName", suffix),
       colors |-> [i \in 1..Len(used) |-> colour(colormap, used[i])],
       under |-> IF used = <<>> THEN None
                 ELSE Some(colour(colormap, used[1])),
       over |-> IF used = <<>> THEN None
                ELSE Some(colour(colormap, used[Len(used)]))]

\* the ListedColormap built from the indices, with its under and over colours
listed_colormap(colormap, indices, colorbarLevels, suffix) ==
  [kind |-> "listed", name |-> format("colormapName", suffix),
   colors |-> LET used == IF indices_case(colorbarLevels, indices) = "trim"
                          THEN PySlice(indices, 1, -1) ELSE indices
              IN  [i \in 1..Len(used) |-> colour(colormap, used[i])],
   under |-> Some(colour(colormap, indices[1])),
   over |-> Some(colour(colormap, indices[Len(indices)]))]

\* the body of `if colorbarLevels is not None:`
apply_levels(s, indices, colorbarLevels, suffix) ==
  IF Raised(s) \/ colorbarLevels = None THEN s
  ELSE IF indices[1] = <<>>
       THEN Raise(s, "IndexError", "runtime", "list index out of range")
       ELSE IF indices_case(colorbarLevels[1], indices[1]) = "mismatch"
            THEN Raise(s, "ValueError", "module",
                       "length mismatch between indices and colorbarLevels")
            ELSE [s EXCEPT !.r.result =
                     Some(<<listed_colormap(s.r.result[1][1], indices[1],
                                            colorbarLevels[1], suffix),
                            colorbarLevels>>)]

\* return (colormap, colorbarLevels); an exception returns nothing
return_pair(s) ==
  IF Raised(s) THEN [s EXCEPT !.r.result = None]
  ELSE [s EXCEPT !.r.outcome = "returned"]

setup_colormap_body(s0, section, suffix) ==
  LET s1 == section_get(s0, section.colormapName,
                        format("colormapName", suffix))
      s2 == IF Raised(s1) THEN s1 ELSE get_cmap(s1, section.colormapName[1])
      s3 == section_get(s2, section.colormapIndices,
                        format("colormapIndices", suffix))
      s4 == get_colorbarLevels(s3, section.colorbarLevels,
                               format("colorbarLevels", suffix))
      s5 == apply_levels(s4, section.colormapIndices, section.colorbarLevels,
                         suffix)
  IN  return_pair(s5)

setup_colormap ==
  /\ Idle
  /\ \E section \in Sections, suffix \in {"", "Difference"} :
       Finish(setup_colormap_body(
                [Enter("setup_colormap") EXCEPT !.r.section = Some(section),
                                               !.r.suffix = suffix],
                section, suffix))

(************************ the caller ***************************************)
\* the call is over and control is back with the caller: what is left of the
\* call is what it left in pyplot and on disk
caller_resumes ==
  /\ ~Idle
  /\ last' = NoCall
  /\ UNCHANGED <<figs, fs>>

(************************ specification ************************************)
Init ==
  /\ figs = <<>>
  /\ fs = {}
  /\ last = NoCall

Next ==
  \/ plot_polar_comparison
  \/ plot_global_comparison
  \/ timeseries_analysis_plot
  \/ timeseries_analysis_plot_polar
  \/ plot_1D
  \/ plot_vertical_section
  \/ setup_colormap
  \/ caller_resumes

Spec == Init /\ [][Next]_vars

(************************ properties ***************************************)
PlotRoutines ==
  {"timeseries_analysis_plot", "timeseries_analysis_plot_polar",
   "plot_polar_comparison", "plot_global_comparison", "plot_1D",
   "plot_vertical_section"}

Plotted == last.routine \in PlotRoutines
Returned == last.outcome = "returned"
HasRaised == last.outcome = "raised"

ShapeMismatch ==
  /\ last.routine = "plot_vertical_section"
  /\ last.xLen # last.shape[2] \/ last.depthLen # last.shape[1]

\* C1: plot_vertical_section raises ValueError whenever len(xArray) differs
\* from fieldArray.shape[1] or len(depthArray) from fieldArray.shape[0], and
\* before anything else: no figure is created, no config option is read, no
\* file is written and no library call is made.
C1_ShapeMismatchRaisesFirst ==
  ShapeMismatch =>
    /\ HasRaised
    /\ last.errKind = "ValueError"
    /\ last.errOrigin = "module"
    /\ last.created = <<>> /\ figs = last.figsBefore
    /\ last.configReads = {}
    /\ last.written = <<>> /\ fs = last.fsBefore
    /\ last.trace = <<>>

\* a call whose xArray fits and whose depthArray does not has raised
C1_Witness ==
  /\ last.routine = "plot_vertical_section"
  /\ last.xLen = last.shape[2] /\ last.depthLen # last.shape[1]
  /\ HasRaised /\ last.errKind = "ValueError"
  /\ last.errMsg = "size mismatch between depthArray and fieldArray"
  /\ last.figsBefore # <<>>

SectionOf(r) == r.section[1]

\* the lengths of the two lists of a section that has both
LengthsFit(sec) ==
  \/ Len(sec.colormapIndices[1]) = Len(sec.colorbarLevels[1]) - 1
  \/ Len(sec.colormapIndices[1]) = Len(sec.colorbarLevels[1]) + 1

\* C2 as stated: the shape check of plot_vertical_section is the only error a
\* routine raises itself, and no routine catches an error of a collaborator.
C2_OnlyShapeCheckRaises ==
  /\ last.errOrigin = "module" => last.routine = "plot_vertical_section"
  /\ last.caught = {}

\* C2, amended: the errors raised by a raise statement of the module are the
\* ValueError of the shape check of plot_vertical_section and the ValueError
\* 'length mismatch between indices and colorbarLevels' of setup_colormap;
\* the one collaborator error that is caught is the config's NoOptionError
\* for an absent colorbarLevels option, in setup_colormap.
C2_RaisesAndCatches ==
  /\ last.errOrigin = "module" =>
       /\ last.errKind = "ValueError"
       /\ \/ ShapeMismatch
          \/ /\ last.routine = "setup_colormap"
             /\ last.errMsg = "length mismatch between indices and colorbarLevels"
             /\ SectionOf(last).colorbarLevels # None
             /\ SectionOf(last).colormapIndices # None
             /\ ~LengthsFit(SectionOf(last))
  /\ last.caught # {} =>
       /\ last.routine = "setup_colormap"
       /\ last.caught = {"NoOptionError"}
       /\ SectionOf(last).colorbarLevels = None

\* setup_colormap has raised its own ValueError
C2_Witness ==
  /\ last.routine = "setup_colormap"
  /\ HasRaised /\ last.errOrigin = "module" /\ last.errKind = "ValueError"
  /\ Len(SectionOf(last).colormapIndices[1]) = Len(SectionOf(last).colorbarLevels[1])

\* the dpi a call is to use: the argument, or the config's when it is None
ExpectedDpi == IF last.dpi = None THEN last.cfgDpi ELSE last.dpi[1]

\* C3: in each of the six plotting routines the figure is created and saved
\* with the dpi argument, or with config option [plot] dpi when the argument
\* is None; the option is read exactly when the argument is None.
C3_DpiDefault ==
  (Plotted /\ last.created # <<>>) =>
    /\ last.figDpi = Some(ExpectedDpi)
    /\ last.written # <<>> => last.saveDpi = Some(ExpectedDpi)
    /\ ("dpi" \in last.configReads) <=> (last.dpi = None)

\* a call given a dpi has created and saved its figure
C3_Witness ==
  /\ Plotted /\ Returned
  /\ last.dpi # None /\ last.dpi[1] # last.cfgDpi
  /\ last.written # <<>>
  /\ last.saveDpi = last.dpi

\* the file a call is to write: fileout, or the routine's default when omitted
ExpectedFile ==
  IF last.fileout = Omitted
  THEN IF last.routine = "plot_1D" THEN Some("plot_1D.png") ELSE Some("moc.png")
  ELSE last.fileout

\* C4: a plotting call that returns has written exactly one file, fileout (or
\* the default of plot_1D and plot_vertical_section), when fileout is not
\* None, and none when it is None; no call writes more than one file.
C4_OneFilePerCall ==
  Plotted =>
    /\ Len(last.written) <= 1
    /\ fs = last.fsBefore \cup {last.written[i] : i \in 1..Len(last.written)}
    /\ Returned => last.written = ExpectedFile

\* plot_vertical_section, called without fileout, has written moc.png
C4_Witness ==
  /\ last.routine = "plot_vertical_section" /\ Returned
  /\ last.fileout = Omitted
  /\ last.written = <<"moc.png">>
  /\ "moc.png" \notin last.fsBefore /\ "moc.png" \in fs

\* C5 as stated: after any sequence of calls the open figures are those open
\* before the sequence (none).
C5_NoFigureOutlivesItsCall == figs = <<>>

\* C5, amended: a plotting call leaves the open figures as it found them when
\* it returns with displayToScreen false and when it raises before creating
\* its figure; when it returns with displayToScreen true, or raises after
\* creating its figure, the one figure it created stays open.
\* setup_colormap never changes the open figures.
C5_FigureLifetime ==
  /\ (Plotted /\ Returned /\ ~last.displayToScreen) => figs = last.figsBefore
  /\ (Plotted /\ HasRaised /\ last.created = <<>>) => figs = last.figsBefore
  /\ (Plotted /\ ((Returned /\ last.displayToScreen)
                  \/ (HasRaised /\ last.created # <<>>))) =>
       /\ Len(last.created) = 1
       /\ figs = last.figsBefore \o last.created
  /\ last.routine = "setup_colormap" => figs = last.figsBefore

\* a call made while an earlier figure is still open has returned with
\* displayToScreen true and left its own figure open as well
C5_Witness ==
  /\ Plotted /\ Returned /\ last.displayToScreen
  /\ last.figsBefore # <<>>
  /\ Len(figs) = Len(last.figsBefore) + 1

\* the level array of the filled contours of the panels, by position
PanelLevels(i) == IF i = 3 THEN last.clevsDiff ELSE last.clevsModelObs

\* C6: in plot_global_comparison the colorbar of each of the three panels has
\* for ticks and for boundaries the level array of the panel's filled
\* contours: clevsModelObs for model and observations, clevsDiff for the
\* difference.
C6_GlobalColorbarLevels ==
  last.routine = "plot_global_comparison" =>
    \A i \in 1..Len(last.colorbars) :
      /\ last.colorbars[i].levels = PanelLevels(i)
      /\ last.colorbars[i].ticks = PanelLevels(i)
      /\ last.colorbars[i].boundaries = PanelLevels(i)

\* C7: in plot_polar_comparison an omitted figsize is (8, 22) when vertical
\* and (22, 8) otherwise, and a given figsize is used as it is.
C7_PolarFigsize ==
  (last.routine = "plot_polar_comparison" /\ last.created # <<>>) =>
    last.figsize =
      IF last.figsizeArg # None THEN last.figsizeArg
      ELSE IF last.vertical THEN Some(<<80, 220>>) ELSE Some(<<220, 80>>)

\* a call of setup_colormap that got its colormap and both lists
ColormapWithLevels ==
  /\ last.routine = "setup_colormap"
  /\ SectionOf(last).colormapName # None
  /\ SectionOf(last).colormapName[1] \in Registry
  /\ SectionOf(last).colormapIndices # None
  /\ SectionOf(last).colorbarLevels # None

\* C8: with colorbarLevels present, setup_colormap accepts the section
\* exactly when the indices list is one shorter or one longer than the
\* colorbarLevels list, and raises ValueError('length mismatch between
\* indices and colorbarLevels') exactly when it is neither.
C8_LengthCheck ==
  ColormapWithLevels =>
    /\ Returned <=> LengthsFit(SectionOf(last))
    /\ (/\ HasRaised
        /\ last.errKind = "ValueError"
        /\ last.errMsg = "length mismatch between indices and colorbarLevels")
       <=> ~LengthsFit(SectionOf(last))

\* what setup_colormap returned
Colormap == last.result[1][1]
Levels == last.result[1][2]

ReturnedWithLevels ==
  /\ last.routine = "setup_colormap" /\ Returned
  /\ Levels # None

ConfiguredIndices == SectionOf(last).colormapIndices[1]
RegistryColour(i) == <<SectionOf(last).colormapName[1], i>>

UnderOverAsConfigured ==
  /\ Colormap.under = Some(RegistryColour(ConfiguredIndices[1]))
  /\ Colormap.over = Some(RegistryColour(ConfiguredIndices[Len(ConfiguredIndices)]))

\* C9 as stated: a colormap returned with colorbarLevels has
\* len(colorbarLevels)-1 colours, and the registry colours at the first and
\* last configured index for under and over colour.
C9_ColourCount ==
  ReturnedWithLevels =>
    /\ Len(Colormap.colors) = Len(Levels[1]) - 1
    /\ UnderOverAsConfigured

\* C9, amended: a colormap returned with colorbarLevels has
\* len(colorbarLevels)-1 colours, none when colorbarLevels is empty (and the
\* indices list holds one index), and the registry colours at the first and
\* last configured index for under and over colour.
C9_ColourCountOrNone ==
  ReturnedWithLevels =>
    /\ Colormap.kind = "listed"
    /\ Len(Colormap.colors) =
         IF Levels[1] = <<>> THEN 0 ELSE Len(Levels[1]) - 1
    /\ Levels[1] = <<>> => Len(ConfiguredIndices) = 1
    /\ UnderOverAsConfigured

\* a colormap made of an indices list that had the two extra entries
C9_Witness ==
  /\ ReturnedWithLevels
  /\ Len(ConfiguredIndices) = Len(Levels[1]) + 1
  /\ Len(Colormap.colors) = 2
  /\ Colormap.under # Some(Colormap.colors[1])
  /\ Colormap.over # Some(Colormap.colors[2])

\* C10: without the colorbarLevels option setup_colormap returns the registry
\* colormap named by colormapName and None: the missing option is no error,
\* whatever the length of the indices list, and no colormap is built from
\* the indices.
C10_NoLevels ==
  (last.routine = "setup_colormap" /\ SectionOf(last).colorbarLevels = None) =>
    /\ last.errOrigin \notin {"module", "runtime"}
    /\ last.errMsg \notin {"colorbarLevels", "colorbarLevelsDifference"}
    /\ (/\ SectionOf(last).colormapName # None
        /\ SectionOf(last).colormapName[1] \in Registry
        /\ SectionOf(last).colormapIndices # None) =>
         /\ Returned
         /\ Colormap.kind = "registry"
         /\ Colormap.name = SectionOf(last).colormapName[1]
         /\ Colormap.colors = <<>>
         /\ Levels = None

\* a section with an empty indices list and no colorbarLevels was accepted
C10_Witness ==
  /\ last.routine = "setup_colormap" /\ Returned
  /\ SectionOf(last).colorbarLevels = None
  /\ SectionOf(last).colormapIndices = Some(<<>>)
  /\ "NoOptionError" \in last.caught
  /\ Levels = None

\* a call of plot_vertical_section that averaged over N >= 2 points of an
\* xArray of at least N points
Averaged ==
  /\ last.routine = "plot_vertical_section"
  /\ last.xTrim # None
  /\ last.N # None /\ last.N[1] >= 2
  /\ last.xLen >= last.N[1]

\* C11: for every window N >= 2 and every xArray of length L >= N, the
\* trimmed xArray and every trimmed depth slice handed to the contour
\* routines have length L-N+1 (so are not empty), and the entries kept are
\* those at which the centred N-point moving average is defined: all but the
\* first N div 2 and the last (N-1) div 2.
C11_TrimmedLengths ==
  Averaged =>
    /\ Len(last.xTrim[1]) = last.xLen - last.N[1] + 1
    /\ last.fieldTrim[1][2] = last.xLen - last.N[1] + 1
    /\ last.xTrim[1] =
         [i \in 1..(last.xLen - last.N[1] + 1) |-> (last.N[1] \div 2) + i]

\* the call ended in an error of the plotting library refusing its data
LibraryRefused == HasRaised /\ last.errKind = "LibraryError"

\* C12: timeseries_analysis_plot completes for every dsvalues list of data
\* sets and None entries, the all-None list and the empty list included:
\* neither the tick formatting nor the y=0 line fails for want of a value
\* that no loop iteration has defined.
C12_TimeSeriesCompletes ==
  last.routine = "timeseries_analysis_plot" =>
    /\ Returned \/ LibraryRefused
    /\ Returned => last.drawn <= last.nEntries

\* the positions of a step in the trace of the call
Positions(step) == {i \in 1..Len(last.trace) : last.trace[i] = step}

\* C13: a plotting call that returns has created its figure first, then
\* drawn, then saved (if fileout is not None), then closed: the figure is
\* closed exactly when displayToScreen is false, the close is the last step
\* and follows the save, the figure closed is the one the call created, and
\* with displayToScreen false as many figures are open after the call as
\* before it.
C13_StepOrder ==
  (Plotted /\ Returned) =>
    /\ Positions("figure") = {1}
    /\ Len(last.created) = 1
    /\ Cardinality(Positions("save")) = Len(last.written)
    /\ (Positions("close") # {}) <=> ~last.displayToScreen
    /\ \A c \in Positions("close") :
         /\ c = Len(last.trace)
         /\ \A v \in Positions("save") : v = c - 1
    /\ last.displayToScreen =>
         /\ last.closed = <<>>
         /\ \A v \in Positions("save") : v = Len(last.trace)
    /\ ~last.displayToScreen =>
         /\ last.closed = last.created
         /\ figs = last.figsBefore
    /\ Len(last.trace) - Len(last.written) - Len(last.closed) >= 2

\* a call that drew, saved and then closed its figure, beside an older one
C13_Witness ==
  /\ Plotted /\ Returned /\ ~last.displayToScreen
  /\ last.figsBefore # <<>>
  /\ Len(last.trace) >= 4
  /\ last.trace[Len(last.trace) - 1] = "save"
  /\ last.trace[Len(last.trace)] = "close"
  /\ last.closed = last.created

\* C14: plot_1D completes for every list of x arrays, the empty list
\* included, and draws a legend exactly when more than one curve was drawn
\* (more than one entry of xArrays is not None).
C14_LegendIffSeveralCurves ==
  last.routine = "plot_1D" =>
    /\ Returned \/ LibraryRefused
    /\ Returned => (last.legend <=> last.drawn > 1)

====
